---- MODULE Spec2Model ----
(***************************************************************************)
(* Katana game benchmark automation: the benchmark lifecycle of            *)
(* katana/core/benchmark.py driven by the CS2 steps of                     *)
(* katana/games/cs2/benchmark.py, and the CS2 preset adapter of            *)
(* katana/games/cs2/presets.py.                                            *)
(*                                                                         *)
(* Time is counted in ticks of half a second (the shortest sleep of the    *)
(* code); time.strftime("%Y%m%d_%H%M%S") keeps whole seconds only.         *)
(* What the screen shows is the environment: every template lookup has a   *)
(* nondeterministic outcome.  A lookup that fails, a detection that needs  *)
(* one more poll, a window that is not there and a file write that raises  *)
(* are "faults"; a behaviour holds at most MaxFaults of them.              *)
(***************************************************************************)
EXTENDS Integers, Sequences, FiniteSets, TLC

(* ------------------------------- bounds -------------------------------- *)
MaxSeries == 2
MaxRunCount == 1
MaxFaults == 1
MaxEntries == 1
MaxOps == 1
MaxSessionOps == 4
MaxClock == 2
MaxRetries == 3
MaxCalls == 2

(* -------------------------- program constants -------------------------- *)
TicksPerSec == 2
GAME_ID == "730"
LAUNCH_WAIT_TIME == 40
COOLDOWN == 120
DEFAULT_RUNS == 4
TEMPLATE_TIMEOUT == 30
FOCUS_SLEEP == 1
ESC_PRESSES == 3
WORKSHOP_TIMEOUT == 20
MAP_TIMEOUT == 20
GO_TIMEOUT == 15
FIRST_FRAME_TIMEOUT == 20
END_SCREEN_TIMEOUT == 124
END_CHECK_INTERVAL == 3
RESULT_DISPLAY_SLEEP == 12
TEARDOWN_FINAL_SCREEN_SLEEP == 10
TEARDOWN_CONSOLE_SLEEP == 1
TEARDOWN_POWER_SLEEP == 3
TEARDOWN_MENU_SLEEP == 2
TEARDOWN_CLOSE_SLEEP == 5
POWER_TIMEOUT == 10
QUIT_TIMEOUT == 10
MAX_RETRIES == 3
RETRY_SLEEP == 1
CLICK_SLEEP_TICKS == 1

\* Python's None where the code holds a number (times are never negative).
None == -1

Sec(n) == n * TicksPerSec

\* time.strftime("%Y%m%d_%H"): the clock cut to whole hours.
TimestampHours(t) == t \div (3600 * TicksPerSec)

\* time.strftime("%Y%m%d_%H%M%S"): the clock cut to whole seconds.
Timestamp(t) == t \div TicksPerSec

Cost(found) == IF found THEN 0 ELSE 1

\* The steps of execute_benchmark_run, in the order of its body.
RUN_STEPS ==
  <<"launch", "focus_game_window", "wait_until_ready", "navigate_to_benchmark",
    "start_benchmark", "collect_results", "teardown">>

VARIABLES
  entry,                 \* "main": started from the command line; "api": the
                         \* benchmark object's methods are called directly
  pc,                    \* position in run_benchmark_series / execute_benchmark_run
  now,                   \* the clock, in ticks
  faults,                \* faults the environment has produced so far
  series,                \* calls of run_benchmark_series so far
  runs_flag,             \* the --runs flag of the current series (<<>>: not given)
  run_count,             \* run_benchmark_series' run_count
  cooldown,              \* run_benchmark_series' cooldown, in seconds
  run_id,                \* execute_benchmark_run's run_id (the loop's i)
  is_dry_run,            \* execute_benchmark_run's is_dry_run
  result,                \* execute_benchmark_run's local result (<<>>: None)
  ret,                   \* what execute_benchmark_run returned last (<<>>: None)
  benchmark_start_time,
  benchmark_end_time,
  benchmark_duration,
  results,               \* self.results
  files,                 \* result files on disk, each a name and a content
  shots,                 \* screenshot files taken, by name
  steps,                 \* steps invoked by the current execute_benchmark_run
  rets,                  \* what the current run's steps returned, and the
                         \* templates navigate_to_benchmark clicked, and
                         \* whether collect_results saw the end screen
  calls,                 \* run ids passed to execute_benchmark_run in this series
  cools,                 \* for each cooldown of this series, the runs called before it
  dry_ok,                \* this series' dry run has set benchmark_duration
  executed,              \* calls of execute_benchmark_run on this object so far
  overwrote,             \* some save() has replaced an existing result file
  config_file,           \* the CS2 video settings file at config_path
  backup_files,          \* the backup files beside it, each a name and a content
  preset_call,           \* the last call on the preset adapter and its arguments
  preset_ret,            \* what that call returned
  preset_ops,            \* calls on the preset adapter so far
  restore_ret,           \* what restore_backup returned inside the last
                         \* apply_preset ("none": not called)
  backup_taken,          \* the path and content of the last backup_config(),
                         \* while only apply_preset calls have followed it
  requested,             \* main's preset_id: "unset" before main has asked,
                         \* "none", or by "flag" or by "prompt"
  manager_ret,           \* what PresetManager.apply_preset returned to main
  retry                  \* the frame of a click_template_with_retry call: its
                         \* arguments, the loop's attempt, what each
                         \* click_template call returned, and its return value

objVars == <<benchmark_start_time, benchmark_end_time, benchmark_duration, results>>
diskVars == <<files, shots, overwrote>>
callVars == <<run_id, is_dry_run, result, ret>>
runVars == <<run_id, is_dry_run, executed>>
seriesVars == <<entry, series, runs_flag, run_count, cooldown, calls, cools, dry_ok>>
mainVars == <<requested, manager_ret>>
presetVars ==
  <<config_file, backup_files, preset_call, preset_ret, preset_ops, restore_ret,
    backup_taken, requested, manager_ret>>
vars ==
  <<entry, pc, now, faults, series, runs_flag, run_count, cooldown, run_id, is_dry_run,
    result, ret, benchmark_start_time, benchmark_end_time, benchmark_duration,
    results, files, shots, steps, rets, calls, cools, dry_ok, executed,
    overwrote, config_file, backup_files, preset_call, preset_ret, preset_ops,
    restore_ret, backup_taken, requested, manager_ret, retry>>

(* --------------------------- BenchmarkResult --------------------------- *)

\* BenchmarkResult.__init__ at clock t.
NewResult(rid, t) ==
  [game_id |-> GAME_ID, run_id |-> rid, timestamp |-> Timestamp(t),
   duration |-> None, screenshot_path |-> <<>>, raw_data |-> {}]

\* The name of the file save() writes.
ResultPath(r) == <<r.game_id, r.run_id, r.timestamp>>

\* The name take_screenshot is given by collect_results.
ScreenshotName(rid, t) == <<rid, Timestamp(t)>>

(* ---------------------- detector and interactor ------------------------ *)

\* ImageDetector.wait_for_template: blocks until the template is detected
\* (after `delay` ticks of polling) or the timeout has elapsed.
WaitForTemplate(found, delay, timeout) ==
  IF found /\ delay < Sec(timeout)
    THEN [found |-> TRUE, elapsed |-> delay]
    ELSE [found |-> FALSE, elapsed |-> Sec(timeout)]

\* GameInteractor.click_template: one lookup, and a click when it matches.
ClickTemplate(found) ==
  IF found THEN [ok |-> TRUE, elapsed |-> CLICK_SLEEP_TICKS]
           ELSE [ok |-> FALSE, elapsed |-> 0]

RECURSIVE RetryFrom(_, _, _)
RetryFrom(found, max_retries, attempt) ==
  IF attempt > max_retries
    THEN [ok |-> FALSE, attempts |-> attempt, elapsed |-> 0]
    ELSE LET c == ClickTemplate(found[attempt]) IN
         IF c.ok
           THEN [ok |-> TRUE, attempts |-> attempt + 1, elapsed |-> c.elapsed]
           ELSE LET rest == RetryFrom(found, max_retries, attempt + 1)
                    slept == IF attempt < max_retries THEN Sec(RETRY_SLEEP) ELSE 0
                IN [ok |-> rest.ok, attempts |-> rest.attempts,
                    elapsed |-> c.elapsed + slept + rest.elapsed]

\* GameInteractor.click_template_with_retry; found[a] is what attempt a sees.
ClickTemplateWithRetry(found, max_retries) == RetryFrom(found, max_retries, 0)

(* ----------------------------- CS2 steps ------------------------------- *)

\* CS2Benchmark.navigate_to_benchmark under the lookups' outcomes o.
NavigateToBenchmark(o) ==
  LET play == ClickTemplateWithRetry([a \in 0..MAX_RETRIES |-> a >= o.playFails],
                                     MAX_RETRIES)
      ws == WaitForTemplate(o.ws, 0, WORKSHOP_TIMEOUT)
      wsClick == ClickTemplate(o.wsClick)
      map == WaitForTemplate(o.map, 0, MAP_TIMEOUT)
      mapClick == ClickTemplate(o.mapClick)
  IN IF ~play.ok
       THEN [ret |-> FALSE, elapsed |-> play.elapsed, clicked |-> <<>>]
     ELSE IF ~ws.found
       THEN [ret |-> FALSE, elapsed |-> play.elapsed + ws.elapsed,
             clicked |-> <<"play_tab.png">>]
     ELSE IF ~map.found
       THEN [ret |-> FALSE,
             elapsed |-> play.elapsed + ws.elapsed + wsClick.elapsed + map.elapsed,
             clicked |-> <<"play_tab.png">>
                         \o (IF wsClick.ok THEN <<"workshop_tab.png">> ELSE <<>>)]
     ELSE [ret |-> TRUE,
           elapsed |-> play.elapsed + ws.elapsed + wsClick.elapsed + map.elapsed
                       + mapClick.elapsed,
           clicked |-> <<"play_tab.png">>
                       \o (IF wsClick.ok THEN <<"workshop_tab.png">> ELSE <<>>)
                       \o (IF mapClick.ok THEN <<"cs2_fps_benchmark.png">> ELSE <<>>)]

NavOracles ==
  [playFails : 0..(MAX_RETRIES + 1), ws : BOOLEAN, wsClick : BOOLEAN,
   map : BOOLEAN, mapClick : BOOLEAN]

\* Only the lookups navigate_to_benchmark reaches count.
NavCost(o) ==
  LET play == o.playFails <= MAX_RETRIES IN
    (IF o.playFails > 0 THEN 1 ELSE 0)
    + (IF play THEN Cost(o.ws) ELSE 0)
    + (IF play /\ o.ws THEN Cost(o.wsClick) + Cost(o.map) ELSE 0)
    + (IF play /\ o.ws /\ o.map THEN Cost(o.mapClick) ELSE 0)

\* An oracle names each behaviour once: lookups not reached are TRUE.
NavCanonical(o) ==
  LET play == o.playFails <= MAX_RETRIES IN
    /\ (~play => o.ws)
    /\ (~(play /\ o.ws) => o.wsClick /\ o.map)
    /\ (~(play /\ o.ws /\ o.map) => o.mapClick)

\* CS2Benchmark.start_benchmark from clock t.
StartBenchmark(o, t, start_time) ==
  LET go == WaitForTemplate(o.go, 0, GO_TIMEOUT)
      goClick == ClickTemplate(o.goClick)
      frame == WaitForTemplate(o.frame, 0, FIRST_FRAME_TIMEOUT)
  IN IF ~go.found
       THEN [ret |-> FALSE, elapsed |-> go.elapsed, start_time |-> start_time]
     ELSE IF ~frame.found
       THEN [ret |-> FALSE, elapsed |-> go.elapsed + goClick.elapsed + frame.elapsed,
             start_time |-> start_time]
     ELSE [ret |-> TRUE, elapsed |-> go.elapsed + goClick.elapsed + frame.elapsed,
           start_time |-> t + go.elapsed + goClick.elapsed + frame.elapsed]

StartOracles == [go : BOOLEAN, goClick : BOOLEAN, frame : BOOLEAN]

StartCost(o) == Cost(o.go) + (IF o.go THEN Cost(o.goClick) + Cost(o.frame) ELSE 0)

StartCanonical(o) == ~o.go => o.goClick /\ o.frame

\* CS2Benchmark.teardown: the time it takes.
TeardownElapsed(o) ==
  LET power == WaitForTemplate(o.power, 0, POWER_TIMEOUT)
      powerClick == ClickTemplate(o.powerClick)
      quit == WaitForTemplate(o.quit, 0, QUIT_TIMEOUT)
      quitClick == ClickTemplate(o.quitClick)
  IN Sec(TEARDOWN_FINAL_SCREEN_SLEEP) + Sec(TEARDOWN_CONSOLE_SLEEP)
     + Sec(TEARDOWN_POWER_SLEEP) + power.elapsed
     + (IF power.found THEN powerClick.elapsed + Sec(TEARDOWN_MENU_SLEEP) ELSE 0)
     + quit.elapsed + (IF quit.found THEN quitClick.elapsed ELSE 0)
     + Sec(TEARDOWN_CLOSE_SLEEP)

TeardownOracles ==
  [power : BOOLEAN, powerClick : BOOLEAN, quit : BOOLEAN, quitClick : BOOLEAN]

TeardownCost(o) ==
  Cost(o.power) + (IF o.power THEN Cost(o.powerClick) ELSE 0)
  + Cost(o.quit) + (IF o.quit THEN Cost(o.quitClick) ELSE 0)

TeardownCanonical(o) == (~o.power => o.powerClick) /\ (~o.quit => o.quitClick)

(* -------------------------- CS2PresetAdapter --------------------------- *)

\* Keys and values are texts: sequences of segments, "." being the one
\* segment that a regular expression reads as "any character".
RES == <<"setting", ".", "defaultres">>
RESH == <<"setting", ".", "defaultresheight">>
FULLSCREEN == <<"setting", ".", "fullscreen">>
NAME == <<"name">>

\* apply_preset's required_settings and the metadata keys it skips.
REQUIRED_SETTINGS == {RES, RESH}
METADATA_KEYS == {<<"name">>, <<"description">>}

\* The config file is a sequence of tokens: quoted strings and braces, each
\* with the whitespace that follows it ("none", "tabs2": exactly two tabs,
\* "other": any other whitespace).
Quoted(text, ws) == [kind |-> "str", text |-> text, ws |-> ws]
Brace(kind, ws) == [kind |-> kind, text |-> <<>>, ws |-> ws]

\* Preset values as json.load gives them: bool, int or str.
PyBool(b) == [ty |-> "bool", b |-> b, n |-> 0, s |-> <<>>]
PyInt(n) == [ty |-> "int", b |-> FALSE, n |-> n, s |-> <<>>]
PyText(s) == [ty |-> "str", b |-> FALSE, n |-> 0, s |-> s]

\* "1" if value else "0" for a bool, str(value) otherwise.
ValueString(value) ==
  CASE value.ty = "bool" -> IF value.b THEN <<"1">> ELSE <<"0">>
    [] value.ty = "int" -> <<ToString(value.n)>>
    [] OTHER -> value.s

\* The key, unescaped, read as a regular expression against a quoted text.
KeyMatches(key, text) ==
  /\ Len(key) = Len(text)
  /\ \A i \in 1..Len(key) : key[i] = "." \/ key[i] = text[i]

\* pattern = "key"\s+"[^"]*" matches the tokens i and i+1.
MatchAt(content, key, i) ==
  /\ i + 1 <= Len(content)
  /\ content[i].kind = "str"
  /\ content[i + 1].kind = "str"
  /\ content[i].ws # "none"
  /\ KeyMatches(key, content[i].text)

\* re.search: the leftmost match (0: no match).
RECURSIVE SearchFrom(_, _, _)
SearchFrom(content, key, i) ==
  IF i >= Len(content) THEN 0
  ELSE IF MatchAt(content, key, i) THEN i
  ELSE SearchFrom(content, key, i + 1)

Search(content, key) == SearchFrom(content, key, 1)

\* replacement = "key"\t\t"value", in front of the whitespace that followed.
Replacement(key, value, ws) == <<Quoted(key, "tabs2"), Quoted(value, ws)>>

\* current_match.group(0) != replacement
DiffersFromReplacement(content, i, key, value) ==
  ~(content[i].text = key /\ content[i].ws = "tabs2" /\ content[i + 1].text = value)

\* A backslash followed by a letter that re knows no meaning for, such as
\* the \d of C:\data: re.sub refuses it in a replacement ("bad escape").
BAD_ESCAPE == "\\d"

\* re.sub(pattern, replacement, content) raises re.error.
BadReplacement(value) == \E i \in 1..Len(value) : value[i] = BAD_ESCAPE

\* re.sub(pattern, replacement, content): every match, left to right.
RECURSIVE Sub(_, _, _, _)
Sub(content, key, value, i) ==
  IF i > Len(content) THEN <<>>
  ELSE IF MatchAt(content, key, i)
       THEN Replacement(key, value, content[i + 1].ws) \o Sub(content, key, value, i + 2)
       ELSE <<content[i]>> \o Sub(content, key, value, i + 1)

\* content.replace("}", "\t" + replacement + "\n}"): in front of every "}".
RECURSIVE ReplaceBraces(_, _, _, _)
ReplaceBraces(content, key, value, i) ==
  IF i > Len(content) THEN <<>>
  ELSE LET tabbed == IF i < Len(content) /\ content[i + 1].kind = "close"
                     THEN [content[i] EXCEPT !.ws = "other"]
                     ELSE content[i]
       IN (IF content[i].kind = "close" THEN Replacement(key, value, "other") ELSE <<>>)
          \o <<tabbed>> \o ReplaceBraces(content, key, value, i + 1)

\* One pass of the loop over preset_data.items() for a key that is a setting.
PatchSetting(content, key, value) ==
  LET i == Search(content, key) IN
  IF i # 0
  THEN IF DiffersFromReplacement(content, i, key, value)
       THEN IF BadReplacement(value)
            THEN [content |-> content, applied |-> 0, raised |-> TRUE]
            ELSE [content |-> Sub(content, key, value, 1), applied |-> 1,
                  raised |-> FALSE]
       ELSE [content |-> content, applied |-> 0, raised |-> FALSE]
  ELSE [content |-> ReplaceBraces(content, key, value, 1), applied |-> 1,
        raised |-> FALSE]

\* The loop over preset_data.items() from item k on.
RECURSIVE PatchFrom(_, _, _, _)
PatchFrom(content, preset, k, applied) ==
  IF k > Len(preset)
  THEN [content |-> content, applied |-> applied, raised |-> FALSE]
  ELSE IF preset[k].key \in METADATA_KEYS
       THEN PatchFrom(content, preset, k + 1, applied)
       ELSE LET one == PatchSetting(content, preset[k].key, ValueString(preset[k].value))
            IN IF one.raised
               THEN [content |-> content, applied |-> applied, raised |-> TRUE]
               ELSE PatchFrom(one.content, preset, k + 1, applied + one.applied)

Patch(content, preset) == PatchFrom(content, preset, 1, 0)

PresetKeys(preset) == {preset[k].key : k \in 1..Len(preset)}

\* Files: the config file, and the backups beside it by name.
NoFile == [exists |-> FALSE, content |-> <<>>]
File(content) == [exists |-> TRUE, content |-> content]

Stored(backups, name, content) ==
  {b \in backups : b.name # name} \cup {[name |-> name, content |-> content]}

\* shutil.copy2 and open(..., "w") + write: done, refused before the target
\* was touched, or aborted with the target left empty.
IO_OUTCOMES == {"ok", "fail", "partial"}
IoCost(outcome) == IF outcome = "ok" THEN 0 ELSE 1

\* backup_config(): the path is <config name>.backup_<timestamp>.
BackupConfigOutcome(file, backups, t, copy) ==
  IF ~file.exists
  THEN [path |-> <<>>, backups |-> backups, cost |-> 0]
  ELSE CASE copy = "ok" ->
              [path |-> <<Timestamp(t)>>,
               backups |-> Stored(backups, Timestamp(t), file.content), cost |-> 0]
         [] copy = "fail" ->
              [path |-> <<>>, backups |-> backups, cost |-> 1]
         [] OTHER ->
              [path |-> <<>>, backups |-> Stored(backups, Timestamp(t), <<>>), cost |-> 1]

\* A restore_backup that copies nothing and reports success.
RestoreBackupSkipped(file, backups, name, copy) ==
  [ret |-> TRUE, file |-> file, cost |-> 0]

\* restore_backup(backup_path).
RestoreBackupOutcome(file, backups, name, copy) ==
  IF ~\E b \in backups : b.name = name
  THEN [ret |-> FALSE, file |-> file, cost |-> 0]
  ELSE LET b == CHOOSE b \in backups : b.name = name IN
       CASE copy = "ok" -> [ret |-> TRUE, file |-> File(b.content), cost |-> 0]
         [] copy = "fail" -> [ret |-> FALSE, file |-> file, cost |-> 1]
         [] OTHER -> [ret |-> FALSE, file |-> File(<<>>), cost |-> 1]

\* What the file system does to one call of apply_preset: the outcome of
\* each file operation, "ok" for one that a failure before it leaves out.
IoCanonical(io, backup) ==
  /\ ~backup => (io.copy = "ok" /\ io.restore = "ok")
  /\ io.copy # "ok" => (io.read /\ io.write = "ok" /\ io.restore = "ok")
  /\ ~io.read => io.write = "ok"

IoFaults(io) ==
  IoCost(io.copy) + Cost(io.read) + IoCost(io.write) + IoCost(io.restore)

PresetIO(backup, budget) ==
  {io \in [copy : IO_OUTCOMES, read : BOOLEAN, write : IO_OUTCOMES,
           restore : IO_OUTCOMES] : IoCanonical(io, backup) /\ IoFaults(io) <= budget}

\* apply_preset(preset_data, backup) at clock t, where the loop over the
\* preset's items makes `patched` of the content read.
ApplyPatched(file, backups, preset, patched, backup, t, io) ==
  IF \/ ~file.exists
     \/ preset = <<>>
     \/ ~(REQUIRED_SETTINGS \subseteq PresetKeys(preset))
  THEN [ret |-> FALSE, file |-> file, backups |-> backups, cost |-> 0,
        restored |-> "none"]
  ELSE
    LET bk == IF backup
              THEN BackupConfigOutcome(file, backups, t, io.copy)
              ELSE [path |-> <<>>, backups |-> backups, cost |-> 0]
        \* the except clause, with the config file as the failure left it
        \* and the faults the failure took
        Failed(left, cost) ==
          LET rs == IF backup
                    THEN RestoreBackupOutcome(left, bk.backups, bk.path[1], io.restore)
                    ELSE [ret |-> FALSE, file |-> left, cost |-> 0]
          IN [ret |-> FALSE, file |-> rs.file, backups |-> bk.backups,
              cost |-> cost + rs.cost,
              restored |-> IF ~backup THEN "none"
                           ELSE IF rs.ret THEN "True" ELSE "False"]
    IN
    IF backup /\ bk.path = <<>>
    THEN [ret |-> FALSE, file |-> file, backups |-> bk.backups, cost |-> bk.cost,
          restored |-> "none"]
    ELSE IF ~io.read THEN Failed(file, 1)
    ELSE IF patched.raised THEN Failed(file, 0)
    ELSE IF patched.applied = 0
    THEN [ret |-> TRUE, file |-> file, backups |-> bk.backups, cost |-> 0,
          restored |-> "none"]
    ELSE CASE io.write = "ok" ->
                [ret |-> TRUE, file |-> File(patched.content),
                 backups |-> bk.backups, cost |-> 0, restored |-> "none"]
           [] io.write = "fail" -> Failed(file, 1)
           [] OTHER -> Failed(File(<<>>), 1)

ApplyPresetOutcome(file, backups, preset, backup, t, io) ==
  ApplyPatched(file, backups, preset, Patch(file.content, preset), backup, t, io)

\* Presets as PresetManager.load_preset returns them: the items of the
\* preset's JSON object, in the order of the file.
Item(key, value) == [key |-> key, value |-> value]

PRESET_HIGH ==
  <<Item(NAME, PyText(<<"high">>)), Item(RES, PyInt(1920)), Item(RESH, PyInt(1080)),
    Item(FULLSCREEN, PyBool(TRUE))>>
PRESET_LOW ==
  <<Item(RES, PyInt(1280)), Item(RESH, PyInt(720)), Item(FULLSCREEN, PyBool(FALSE))>>
PRESET_NO_WIDTH == <<Item(NAME, PyText(<<"high">>)), Item(RESH, PyInt(1080))>>
PRESET_NO_HEIGHT == <<Item(RES, PyInt(1920))>>
PRESET_ESCAPE ==
  <<Item(RES, PyInt(1920)), Item(RESH, PyInt(1080)),
    Item(FULLSCREEN, PyText(<<"C:", BAD_ESCAPE, "ata">>))>>
PRESETS ==
  {PRESET_HIGH, PRESET_LOW, PRESET_NO_WIDTH, PRESET_NO_HEIGHT, PRESET_ESCAPE, <<>>}

\* Initial contents of the config file: up to MaxEntries settings, bare, in
\* one block as CS2 writes them, or in a nested block.
Entry(key, ws, value) == <<Quoted(key, ws), Quoted(value, "other")>>
ENTRIES ==
  {Entry(RES, "tabs2", <<"1920">>), Entry(RES, "other", <<"1920">>),
   Entry(RES, "tabs2", <<"0">>), Entry(FULLSCREEN, "other", <<"0">>),
   Entry(<<"setting", "_", "defaultres">>, "other", <<"1920">>)}

RECURSIVE Flatten(_)
Flatten(ss) == IF ss = <<>> THEN <<>> ELSE Head(ss) \o Flatten(Tail(ss))

BODIES == UNION {{Flatten(es) : es \in [1..n -> ENTRIES]} : n \in 0..MaxEntries}

Framed(shape, body) ==
  CASE shape = "bare" -> body
    [] shape = "block" ->
         <<Quoted(<<"video", ".", "cfg">>, "other"), Brace("open", "other")>>
         \o body \o <<Brace("close", "other")>>
    [] OTHER ->
         <<Quoted(<<"video", ".", "cfg">>, "other"), Brace("open", "other"),
           Quoted(<<"settings">>, "other"), Brace("open", "other")>>
         \o body \o <<Brace("close", "other"), Brace("close", "other")>>

CONFIG_FILES ==
  {NoFile} \cup {File(Framed(shape, body)) :
                   shape \in {"bare", "block", "nested"}, body \in BODIES}

NoCall ==
  [op |-> "none", preset |-> <<>>, backup |-> FALSE, path |-> <<>>, before |-> NoFile]

(* ------------------------------- Init ---------------------------------- *)

\* GameBenchmark.__init__.
\* No click_template_with_retry call is under way.
NoRetry ==
  [template_path |-> "", max_retries |-> 0, attempt |-> 0, results |-> <<>>,
   ret |-> "none"]

InitFields ==
  /\ now = 0
  /\ faults = 0
  /\ series = 0
  /\ runs_flag = <<>>
  /\ run_count = 0
  /\ cooldown = 0
  /\ run_id = 0
  /\ is_dry_run = FALSE
  /\ result = <<>>
  /\ ret = <<>>
  /\ benchmark_start_time = None
  /\ benchmark_end_time = None
  /\ benchmark_duration = None
  /\ results = <<>>
  /\ files = {}
  /\ shots = {}
  /\ steps = <<>>
  /\ rets = [ready |-> "none", nav |-> "none", start |-> "none", clicked |-> <<>>,
             end |-> "none"]
  /\ calls = <<>>
  /\ cools = <<>>
  /\ dry_ok = FALSE
  /\ executed = 0
  /\ overwrote = FALSE

InitObject == pc = "idle" /\ InitFields

\* CS2PresetAdapter.__init__: no call yet, no backup taken.
InitAdapter ==
  /\ backup_files = {}
  /\ preset_call = NoCall
  /\ preset_ret = "none"
  /\ preset_ops = 0
  /\ restore_ret = "none"
  /\ backup_taken = <<>>
  /\ requested = "unset"
  /\ manager_ret = "none"

\* A fresh benchmark object: driven by main, or its methods called directly.
Init ==
  /\ entry \in {"main", "api"}
  /\ InitObject /\ InitAdapter /\ retry = NoRetry
  /\ config_file = NoFile

\* main alone: one series on a fresh benchmark object.
InitMain ==
  /\ entry = "main"
  /\ InitObject /\ InitAdapter /\ retry = NoRetry
  /\ config_file = NoFile

\* The preset adapter alone, on any initial config file.
InitPreset ==
  /\ entry = "preset"
  /\ InitObject /\ InitAdapter /\ retry = NoRetry
  /\ config_file \in CONFIG_FILES

\* A session on a config file as CS2 writes it.
InitSession ==
  /\ entry = "session"
  /\ InitObject
  /\ InitAdapter
  /\ retry = NoRetry
  /\ config_file \in {File(Framed("block", body)) : body \in BODIES}

(* ----------------------- execute_benchmark_run ------------------------- *)

NoRets ==
  [ready |-> "none", nav |-> "none", start |-> "none", clicked |-> <<>>,
   end |-> "none"]

Bool(b) == IF b THEN "True" ELSE "False"

\* Entering execute_benchmark_run(run_id = rid, is_dry_run = dry).
CallRun(rid, dry) ==
  /\ run_id' = rid
  /\ is_dry_run' = dry
  /\ result' = <<>>
  /\ steps' = <<>>
  /\ rets' = NoRets
  /\ calls' = Append(calls, rid)
  /\ executed' = executed + 1
  /\ pc' = "launch"

\* The except clause: the run returns None.
Raise ==
  /\ pc' = "ret"
  /\ ret' = <<>>

\* A body that starts the benchmark before navigating to it.
StepAfterSwapped(s) ==
  CASE s = "launch" -> "focus_game_window"
    [] s = "focus_game_window" -> "wait_until_ready"
    [] s = "wait_until_ready" -> "start_benchmark"
    [] s = "start_benchmark" -> "navigate_to_benchmark"
    [] s = "navigate_to_benchmark" -> "collect_results"
    [] s = "collect_results" -> "teardown"

\* The step execute_benchmark_run invokes after step s has returned.
StepAfter(s) ==
  CASE s = "launch" -> "focus_game_window"
    [] s = "focus_game_window" -> "wait_until_ready"
    [] s = "wait_until_ready" -> "navigate_to_benchmark"
    [] s = "navigate_to_benchmark" -> "start_benchmark"
    [] s = "start_benchmark" -> "collect_results"
    [] s = "collect_results" -> "teardown"

\* A launch that waits for the game's process to exit.
LaunchBlocks ==
  /\ pc = "launch"
  /\ UNCHANGED vars

\* GameBenchmark.launch -> launch_steam_game.
Launch ==
  /\ pc = "launch"
  /\ steps' = Append(steps, "launch")
  /\ now' = now + Sec(LAUNCH_WAIT_TIME)
  /\ pc' = StepAfter("launch")
  /\ UNCHANGED <<presetVars, retry>>
  /\ UNCHANGED <<faults, objVars, diskVars, callVars, executed, seriesVars, rets>>

\* CS2Benchmark.focus_game_window -> GameInteractor.focus_window.
FocusGameWindow ==
  /\ pc = "focus_game_window"
  /\ \E window \in BOOLEAN :
       /\ faults + Cost(window) <= MaxFaults
       /\ faults' = faults + Cost(window)
       /\ now' = now + (IF window THEN Sec(FOCUS_SLEEP) ELSE 0)
  /\ steps' = Append(steps, "focus_game_window")
  /\ pc' = StepAfter("focus_game_window")
  /\ UNCHANGED <<presetVars, retry>>
  /\ UNCHANGED <<objVars, diskVars, callVars, executed, seriesVars, rets>>

\* CS2Benchmark.wait_until_ready.
WaitUntilReady ==
  /\ pc = "wait_until_ready"
  /\ \E found \in BOOLEAN :
       LET w == WaitForTemplate(found, 0, TEMPLATE_TIMEOUT) IN
         /\ faults + Cost(found) <= MaxFaults
         /\ faults' = faults + Cost(found)
         /\ now' = now + Sec(ESC_PRESSES) + w.elapsed
         /\ rets' = [rets EXCEPT !.ready = Bool(w.found)]
  /\ steps' = Append(steps, "wait_until_ready")
  /\ pc' = StepAfter("wait_until_ready")
  /\ UNCHANGED <<presetVars, retry>>
  /\ UNCHANGED <<objVars, diskVars, callVars, executed, seriesVars>>

\* CS2Benchmark.navigate_to_benchmark, its return value dropped by the caller.
Navigate ==
  /\ pc = "navigate_to_benchmark"
  /\ \E o \in NavOracles :
       LET n == NavigateToBenchmark(o) IN
         /\ NavCanonical(o)
         /\ faults + NavCost(o) <= MaxFaults
         /\ faults' = faults + NavCost(o)
         /\ now' = now + n.elapsed
         /\ rets' = [rets EXCEPT !.nav = Bool(n.ret), !.clicked = n.clicked]
  /\ steps' = Append(steps, "navigate_to_benchmark")
  /\ pc' = StepAfter("navigate_to_benchmark")
  /\ UNCHANGED <<presetVars, retry>>
  /\ UNCHANGED <<objVars, diskVars, callVars, executed, seriesVars>>

\* CS2Benchmark.start_benchmark.
Start ==
  /\ pc = "start_benchmark"
  /\ \E o \in StartOracles :
       LET s == StartBenchmark(o, now, benchmark_start_time) IN
         /\ StartCanonical(o)
         /\ faults + StartCost(o) <= MaxFaults
         /\ faults' = faults + StartCost(o)
         /\ now' = now + s.elapsed
         /\ benchmark_start_time' = s.start_time
         /\ rets' = [rets EXCEPT !.start = Bool(s.ret)]
  /\ steps' = Append(steps, "start_benchmark")
  /\ pc' = StepAfter("start_benchmark")
  /\ UNCHANGED <<presetVars, retry>>
  /\ UNCHANGED <<benchmark_end_time, benchmark_duration, results, diskVars,
                 callVars, executed, seriesVars>>

\* The result collect_results fills in and returns, its screenshot taken at t.
Filled(r, duration, t, shot) ==
  [r EXCEPT !.duration = duration,
            !.screenshot_path = IF shot THEN ScreenshotName(r.run_id, t) ELSE <<>>]

\* GameInteractor.take_screenshot at clock t.
TakeScreenshot(rid, t, shot) ==
  shots' = IF shot THEN shots \cup {ScreenshotName(rid, t)} ELSE shots

\* The position after collect_results: the dry run logs the measured duration.
AfterCollect == IF is_dry_run THEN "log" ELSE StepAfter("collect_results")

\* Polls of the end screen after the first, before the timeout.
EndPolls == (END_SCREEN_TIMEOUT - 1) \div END_CHECK_INTERVAL

\* CS2Benchmark.collect_results(0): the benchmark's end is awaited.
CollectDryRun ==
  /\ pc = "collect_results"
  /\ run_id = 0
  /\ steps' = Append(steps, "collect_results")
  /\ \E end \in BOOLEAN, polls \in 0..EndPolls, shot \in BOOLEAN :
       LET w == WaitForTemplate(end, polls * Sec(END_CHECK_INTERVAL),
                                END_SCREEN_TIMEOUT)
           cost == Cost(end) + (IF end THEN polls + Cost(shot) ELSE 0)
           duration == (now + w.elapsed) - benchmark_start_time
           t == now + w.elapsed + Sec(RESULT_DISPLAY_SLEEP)
       IN /\ (~end => shot /\ polls = 0)
          /\ faults + cost <= MaxFaults
          /\ faults' = faults + cost
          /\ rets' = [rets EXCEPT !.end = Bool(w.found)]
          /\ IF ~w.found
               THEN \* end screen not detected: return None
                    /\ now' = now + w.elapsed
                    /\ result' = <<>>
                    /\ pc' = AfterCollect
                    /\ UNCHANGED <<benchmark_end_time, benchmark_duration, shots,
                                   dry_ok, ret>>
             ELSE IF benchmark_start_time = None
               THEN \* end_time - None raises TypeError
                    /\ shot
                    /\ now' = now + w.elapsed
                    /\ benchmark_end_time' = now + w.elapsed
                    /\ Raise
                    /\ UNCHANGED <<benchmark_duration, shots, dry_ok, result>>
             ELSE /\ now' = t
                  /\ benchmark_end_time' = now + w.elapsed
                  /\ benchmark_duration' = duration
                  /\ TakeScreenshot(run_id, t, shot)
                  /\ result' = <<Filled(NewResult(run_id, now), duration, t, shot)>>
                  /\ dry_ok' = TRUE
                  /\ pc' = AfterCollect
                  /\ UNCHANGED ret
  /\ UNCHANGED <<presetVars, retry>>
  /\ UNCHANGED <<benchmark_start_time, results, files, overwrote, runVars, entry,
                 series, runs_flag, run_count, cooldown, calls, cools>>

\* A check that takes any duration as known.
DurationAlwaysKnown(duration) == TRUE

\* collect_results' check for run_id >= 1: the dry run has left a duration.
DurationKnown(duration) == duration # None

\* CS2Benchmark.collect_results(run_id >= 1): timed collection.
CollectTimed ==
  /\ pc = "collect_results"
  /\ run_id # 0
  /\ steps' = Append(steps, "collect_results")
  /\ IF ~DurationKnown(benchmark_duration)
       THEN /\ result' = <<>>
            /\ UNCHANGED <<now, faults, shots>>
       ELSE \E shot \in BOOLEAN :
              LET t == now + benchmark_duration + Sec(RESULT_DISPLAY_SLEEP) IN
                /\ faults + Cost(shot) <= MaxFaults
                /\ faults' = faults + Cost(shot)
                /\ now' = t
                /\ TakeScreenshot(run_id, t, shot)
                /\ result' = <<Filled(NewResult(run_id, now), benchmark_duration,
                                      t, shot)>>
  /\ pc' = AfterCollect
  /\ UNCHANGED <<presetVars, retry>>
  /\ UNCHANGED <<objVars, files, overwrote, runVars, ret, seriesVars, rets>>

\* execute_benchmark_run's log of the measured duration (dry run only):
\* formatting None with :.2f raises TypeError.
LogDuration ==
  /\ pc = "log"
  /\ IF benchmark_duration = None
       THEN Raise
       ELSE /\ pc' = StepAfter("collect_results")
            /\ UNCHANGED ret
  /\ UNCHANGED <<presetVars, retry>>
  /\ UNCHANGED <<now, faults, objVars, diskVars, runVars, result, seriesVars,
                 steps, rets>>

\* CS2Benchmark.teardown.
Teardown ==
  /\ pc = "teardown"
  /\ \E o \in TeardownOracles :
       /\ TeardownCanonical(o)
       /\ faults + TeardownCost(o) <= MaxFaults
       /\ faults' = faults + TeardownCost(o)
       /\ now' = now + TeardownElapsed(o)
  /\ steps' = Append(steps, "teardown")
  /\ pc' = "record"
  /\ UNCHANGED <<presetVars, retry>>
  /\ UNCHANGED <<objVars, diskVars, callVars, executed, seriesVars, rets>>

\* BenchmarkResult.save: the result's JSON written to its file.
Save(r) ==
  /\ files' = {f \in files : f.name # ResultPath(r)}
                \cup {[name |-> ResultPath(r), content |-> r]}
  /\ overwrote' = (overwrote \/ \E f \in files : f.name = ResultPath(r))

\* An append that also stamps the new duration on the results already held.
AppendedRestamped(rs, r) ==
  Append([k \in DOMAIN rs |-> [rs[k] EXCEPT !.duration = r.duration]], r)

\* self.results.append(result)
Appended(rs, r) == Append(rs, r)

\* execute_benchmark_run's end: the result is appended and saved, and returned.
RecordResult ==
  /\ pc = "record"
  /\ IF result = <<>>
       THEN /\ ret' = <<>>
            /\ UNCHANGED <<results, files, overwrote, faults>>
       ELSE /\ results' = Appended(results, result[1])
            /\ \E written \in BOOLEAN :
                 /\ faults + Cost(written) <= MaxFaults
                 /\ faults' = faults + Cost(written)
                 /\ IF written
                      THEN Save(result[1]) /\ ret' = result
                      ELSE ret' = <<>> /\ UNCHANGED <<files, overwrote>>
  /\ pc' = "ret"
  /\ UNCHANGED <<presetVars, retry>>
  /\ UNCHANGED <<now, benchmark_start_time, benchmark_end_time, benchmark_duration,
                 shots, runVars, result, seriesVars, steps, rets>>

(* ------------------------ run_benchmark_series ------------------------- *)

\* The --runs flag: absent, or a number.
RunsFlags == {<<>>} \cup {<<n>> : n \in (-1)..MaxRunCount}

\* run_benchmark_series' run_count when called directly.
RunCounts == {<<n>> : n \in 0..MaxRunCount}

\* main: the run count is the --runs flag, or the game's default_runs.
RunCount(flag) == IF flag = <<>> THEN DEFAULT_RUNS ELSE flag[1]

\* range(1, run_count)
LoopRangeShort(n) == 1..(n - 1)

\* range(1, run_count + 1)
LoopRange(n) == 1..n

\* The dry run has not set a duration.
DurationUnknown == benchmark_duration = None

\* The loop's "if i < run_count".
CooldownDue(i, n) == i < n

\* time.sleep(cooldown)
Cooldown ==
  /\ now' = now + Sec(cooldown)
  /\ cools' = Append(cools, Len(calls))

\* The series is started by main: "main" from the point where the benchmark
\* instance exists, "cli" from the start of main.
FromMain == entry \in {"main", "cli"}

\* main calls run_benchmark_series, which starts the dry run.
StartSeries ==
  /\ pc = "idle"
  /\ series < (IF FromMain THEN 1 ELSE MaxSeries)
  /\ \E flag \in (IF FromMain THEN RunsFlags ELSE RunCounts) :
       /\ runs_flag' = flag
       /\ run_count' = RunCount(flag)
       /\ cooldown' = COOLDOWN
  /\ series' = series + 1
  /\ cools' = <<>>
  /\ dry_ok' = FALSE
  /\ run_id' = 0
  /\ is_dry_run' = TRUE
  /\ result' = <<>>
  /\ steps' = <<>>
  /\ rets' = NoRets
  /\ calls' = <<0>>
  /\ executed' = executed + 1
  /\ pc' = "launch"
  /\ UNCHANGED <<presetVars, retry>>
  /\ UNCHANGED <<entry, now, faults, objVars, diskVars, ret>>

\* run_benchmark_series after the dry run has returned.
AfterDryRun ==
  /\ pc = "ret"
  /\ is_dry_run
  /\ IF DurationUnknown
       THEN /\ pc' = "idle"
            /\ UNCHANGED <<now, cools, calls, callVars, executed, steps, rets>>
       ELSE /\ Cooldown
            /\ IF 1 \in LoopRange(run_count)
                 THEN CallRun(1, FALSE) /\ UNCHANGED ret
                 ELSE /\ pc' = "idle"
                      /\ UNCHANGED <<calls, callVars, executed, steps, rets>>
  /\ UNCHANGED <<presetVars, retry>>
  /\ UNCHANGED <<faults, objVars, diskVars, entry, series, runs_flag, run_count,
                 cooldown, dry_ok>>

\* run_benchmark_series after run i of the loop has returned.
AfterRun ==
  /\ pc = "ret"
  /\ ~is_dry_run
  /\ IF CooldownDue(run_id, run_count)
       THEN Cooldown
       ELSE UNCHANGED <<now, cools>>
  /\ IF run_id + 1 \in LoopRange(run_count)
       THEN CallRun(run_id + 1, FALSE) /\ UNCHANGED ret
       ELSE /\ pc' = "idle"
            /\ UNCHANGED <<calls, callVars, executed, steps, rets>>
  /\ UNCHANGED <<presetVars, retry>>
  /\ UNCHANGED <<faults, objVars, diskVars, entry, series, runs_flag, run_count,
                 cooldown, dry_ok>>

Next ==
  \/ StartSeries
  \/ Launch
  \/ FocusGameWindow
  \/ WaitUntilReady
  \/ Navigate
  \/ Start
  \/ CollectDryRun
  \/ CollectTimed
  \/ LogDuration
  \/ Teardown
  \/ RecordResult
  \/ AfterDryRun
  \/ AfterRun

Spec == Init /\ [][Next]_vars

\* main runs to its end: every step that can be taken is taken.
FairMain == InitMain /\ [][Next]_vars /\ WF_vars(Next)

(* ---------------------- CS2PresetAdapter's calls ----------------------- *)

benchVars == <<pc, objVars, diskVars, callVars, executed, seriesVars, steps, rets>>

Called(op, preset, backup, path) ==
  [op |-> op, preset |-> preset, backup |-> backup, path |-> path,
   before |-> config_file]

\* Who calls the adapter: "preset", any call on any config file, file
\* operations failing or not; "session", a caller that keeps a backup while
\* it applies valid presets to a config file, with no file operation failing.
PRESET_ENTRIES == {"preset", "session"}
OpsBound == IF entry = "session" THEN MaxSessionOps ELSE MaxOps
FaultBudget == IF entry = "session" THEN 0 ELSE MaxFaults - faults
PresetsGiven ==
  CASE entry = "session" -> {PRESET_HIGH, PRESET_LOW}
    [] entry = "cli" -> {PRESET_HIGH, PRESET_NO_WIDTH, <<>>}
    [] OTHER -> PRESETS

\* apply_preset(preset_data, backup).
ApplyPreset ==
  /\ entry \in PRESET_ENTRIES
  /\ preset_ops < OpsBound
  /\ \E preset \in PresetsGiven :
     \E patched \in {Patch(config_file.content, preset)}, backup \in BOOLEAN :
     \E io \in PresetIO(backup, FaultBudget) :
     \E out \in {ApplyPatched(config_file, backup_files, preset, patched, backup,
                               now, io)} :
          /\ out.cost <= FaultBudget
          /\ faults' = faults + out.cost
          /\ config_file' = out.file
          /\ backup_files' = out.backups
          /\ preset_call' = Called("apply_preset", preset, backup, <<>>)
          /\ preset_ret' = Bool(out.ret)
          /\ restore_ret' = out.restored
  /\ preset_ops' = preset_ops + 1
  /\ UNCHANGED <<now, backup_taken, mainVars, benchVars, retry>>

\* backup_config().
BackupConfig ==
  /\ entry \in PRESET_ENTRIES
  /\ preset_ops < OpsBound
  /\ \E copy \in IO_OUTCOMES :
     \E out \in {BackupConfigOutcome(config_file, backup_files, now, copy)} :
          /\ out.cost <= FaultBudget
          /\ faults' = faults + out.cost
          /\ backup_files' = out.backups
          /\ preset_call' = Called("backup_config", <<>>, FALSE, out.path)
          /\ preset_ret' = IF out.path = <<>> THEN "None" ELSE "path"
          /\ backup_taken' =
               IF out.path = <<>> THEN <<>>
               ELSE <<[name |-> out.path[1], content |-> config_file.content]>>
  /\ preset_ops' = preset_ops + 1
  /\ restore_ret' = "none"
  /\ UNCHANGED <<now, config_file, mainVars, benchVars, retry>>

\* restore_backup(backup_path), for the path of a backup or of no file.
RestoreBackup ==
  /\ entry \in PRESET_ENTRIES
  /\ preset_ops < OpsBound
  /\ \E name \in 0..Timestamp(MaxClock), copy \in IO_OUTCOMES :
     \E out \in {RestoreBackupOutcome(config_file, backup_files, name, copy)} :
          /\ out.cost <= FaultBudget
          /\ faults' = faults + out.cost
          /\ config_file' = out.file
          /\ preset_call' = Called("restore_backup", <<>>, FALSE, <<name>>)
          /\ preset_ret' = Bool(out.ret)
  /\ preset_ops' = preset_ops + 1
  /\ restore_ret' = "none"
  /\ backup_taken' = <<>>
  /\ UNCHANGED <<now, backup_files, mainVars, benchVars, retry>>

\* Time passes between two calls.
PresetTick ==
  /\ entry \in PRESET_ENTRIES
  /\ now < MaxClock
  /\ now' = now + 1
  /\ UNCHANGED <<faults, presetVars, benchVars, retry>>

NextPreset ==
  \/ ApplyPreset
  \/ BackupConfig
  \/ RestoreBackup
  \/ PresetTick

SpecPreset == InitPreset /\ [][NextPreset]_vars

\* A caller that takes backups, applies presets and restores.
SpecSession == InitSession /\ [][NextPreset]_vars

(* -------------------------------- main --------------------------------- *)

\* The config file that main's adapter finds, if any.
CLI_FILES == {NoFile, File(Framed("block", Entry(RES, "tabs2", <<"1920">>)))}

\* main before it has dealt with the preset; the benchmark instance is
\* created once pc is "idle".
InitCli ==
  /\ entry = "cli"
  /\ pc = "main"
  /\ InitFields
  /\ InitAdapter
  /\ retry = NoRetry
  /\ config_file \in CLI_FILES

\* PresetManager.apply_preset returns False before it calls the adapter: no
\* adapter registered for the game id, no preset file, or no preset data.
ManagerRejects(registered, file_exists, preset) ==
  ~registered \/ ~file_exists \/ preset = <<>>

\* main leaves without a benchmark when the preset was not applied.
MainIgnoresPreset(success) == "idle"

\* main after "if preset_id:": return 1 when apply_preset did not succeed,
\* else go on to create the benchmark instance.
MainAfterPreset(success) == IF success THEN "idle" ELSE "return 1"

\* main from the choice of the preset to GameFactory.create_benchmark.
MainPreset ==
  /\ entry = "cli"
  /\ pc = "main"
  /\ \E request \in {"none", "flag", "prompt"} :
       /\ requested' = request
       /\ IF request = "none"
          THEN /\ manager_ret' = "none"
               /\ pc' = "idle"
               /\ UNCHANGED <<faults, config_file, backup_files, preset_call,
                              preset_ret, preset_ops, restore_ret>>
          ELSE \E registered \in BOOLEAN, file_exists \in BOOLEAN,
                  preset \in PresetsGiven :
               IF ManagerRejects(registered, file_exists, preset)
               THEN /\ manager_ret' = "False"
                    /\ pc' = MainAfterPreset(FALSE)
                    /\ UNCHANGED <<faults, config_file, backup_files, preset_call,
                                   preset_ret, preset_ops, restore_ret>>
               ELSE \E io \in PresetIO(TRUE, FaultBudget) :
                    \E out \in {ApplyPresetOutcome(config_file, backup_files, preset,
                                                   TRUE, now, io)} :
                      /\ out.cost <= FaultBudget
                      /\ faults' = faults + out.cost
                      /\ config_file' = out.file
                      /\ backup_files' = out.backups
                      /\ preset_call' = Called("apply_preset", preset, TRUE, <<>>)
                      /\ preset_ret' = Bool(out.ret)
                      /\ restore_ret' = out.restored
                      /\ preset_ops' = preset_ops + 1
                      /\ manager_ret' = Bool(out.ret)
                      /\ pc' = MainAfterPreset(out.ret)
  /\ UNCHANGED <<now, backup_taken, objVars, diskVars, callVars, executed,
                 seriesVars, steps, rets, retry>>

NextCli ==
  \/ MainPreset
  \/ Next

\* main from its start.
SpecCli == InitCli /\ [][NextCli]_vars

(* ------------------ execute_benchmark_run, called directly ------------- *)

\* A benchmark object whose execute_benchmark_run is called by its user.
InitDirect ==
  /\ entry = "direct"
  /\ InitObject /\ InitAdapter /\ retry = NoRetry
  /\ config_file = NoFile

\* execute_benchmark_run(run_id, is_dry_run) on an object that is not in a run.
DirectRun ==
  /\ entry = "direct"
  /\ pc \in {"idle", "ret"}
  /\ executed < MaxCalls
  /\ \E rid \in 0..MaxRunCount, dry \in BOOLEAN : CallRun(rid, dry)
  /\ UNCHANGED <<presetVars, retry>>
  /\ UNCHANGED <<now, faults, objVars, diskVars, ret, entry, series, runs_flag,
                 run_count, cooldown, cools, dry_ok>>

NextDirect ==
  \/ DirectRun
  \/ Launch
  \/ FocusGameWindow
  \/ WaitUntilReady
  \/ Navigate
  \/ Start
  \/ CollectDryRun
  \/ CollectTimed
  \/ LogDuration
  \/ Teardown
  \/ RecordResult

SpecDirect == InitDirect /\ [][NextDirect]_vars

(* --------------------- click_template_with_retry ----------------------- *)

\* The templates the CS2 steps click.
TEMPLATES ==
  {"play_tab.png", "workshop_tab.png", "cs2_fps_benchmark.png", "go_button.png",
   "power_button.png", "quit_button.png"}

\* click_template_with_retry(template_path, max_retries) has been entered.
InitRetry ==
  /\ entry = "retry"
  /\ InitObject
  /\ InitAdapter
  /\ config_file = NoFile
  /\ \E template_path \in TEMPLATES, max_retries \in 0..MaxRetries :
       retry = [NoRetry EXCEPT !.template_path = template_path,
                               !.max_retries = max_retries]

\* A loop that runs one attempt more.
RetryRangeLong(max_retries) == 0..(max_retries + 1)

\* range(max_retries + 1)
RetryRange(max_retries) == 0..max_retries

\* One pass of the loop: click_template is called; True returns at once,
\* False sleeps unless this was the last attempt.
RetryAttempt ==
  /\ entry = "retry"
  /\ retry.ret = "none"
  /\ retry.attempt \in RetryRange(retry.max_retries)
  /\ \E found \in BOOLEAN :
       LET c == ClickTemplate(found)
           slept == IF ~c.ok /\ retry.attempt < retry.max_retries
                      THEN Sec(RETRY_SLEEP) ELSE 0
       IN /\ retry' = [retry EXCEPT !.results = Append(@, c.ok),
                                    !.ret = IF c.ok THEN "True" ELSE "none",
                                    !.attempt = IF c.ok THEN @ ELSE @ + 1]
          /\ now' = now + c.elapsed + slept
  /\ UNCHANGED <<faults, presetVars, benchVars>>

\* The loop has run out: the failure is logged and False returned.
RetryExhausted ==
  /\ entry = "retry"
  /\ retry.ret = "none"
  /\ retry.attempt \notin RetryRange(retry.max_retries)
  /\ retry' = [retry EXCEPT !.ret = "False"]
  /\ UNCHANGED <<now, faults, presetVars, benchVars>>

NextRetry ==
  \/ RetryAttempt
  \/ RetryExhausted

\* The call runs on: the loop's next pass is taken when there is one.
FairRetry == InitRetry /\ [][NextRetry]_vars /\ WF_vars(NextRetry)

(* ------------------------------ claims --------------------------------- *)

SeriesDone == pc = "idle" /\ series > 0

Max(a, b) == IF a >= b THEN a ELSE b

\* The run ids 0, 1, ..., n.
Upto(n) == [k \in 1..(Max(n, 0) + 1) |-> k - 1]

\* C1: within one call of execute_benchmark_run the steps invoked so far are
\* an initial part of launch, focus_game_window, wait_until_ready,
\* navigate_to_benchmark, start_benchmark, collect_results, teardown: fixed
\* order, each step at most once.
C1_StepOrder ==
  /\ Len(steps) <= Len(RUN_STEPS)
  /\ \A k \in 1..Len(steps) : steps[k] = RUN_STEPS[k]

C1_Witness == pc = "record" /\ steps = RUN_STEPS /\ rets.nav = "False"

\* C2: started by main without --runs, a series whose dry run succeeds has
\* executed default_runs = 4 runs when it ends: run 0 and three more.
C2_DefaultRunsTotal ==
  (SeriesDone /\ entry = "main" /\ runs_flag = <<>> /\ dry_ok)
    => (Len(calls) = DEFAULT_RUNS /\ calls[1] = 0)

C4_CooldownBetweenRuns ==
  SeriesDone => /\ Len(cools) = Len(calls) - 1
                /\ \A k \in 1..Len(cools) : cools[k] = k

\* C5: a series whose dry run has not determined the duration executes run 0
\* only and sleeps no cooldown.
C5_FailedDryRunStops ==
  (SeriesDone /\ ~dry_ok) => (calls = <<0>> /\ cools = <<>>)

\* C6: every call of execute_benchmark_run returns, and every series ends.
C6_Terminates ==
  /\ (pc = "launch") ~> (pc = "ret")
  /\ (pc # "idle") ~> (pc = "idle")

C6_Witness == pc = "ret" /\ rets.ready = "False" /\ run_count = DEFAULT_RUNS

\* C7: the results list holds at most one result per executed run, and every
\* result in it is in its result file, as written by save().
C7_ResultsSaved ==
  (pc \in {"idle", "ret"})
    => /\ Len(results) <= executed
       /\ \A k \in 1..Len(results) :
            [name |-> ResultPath(results[k]), content |-> results[k]] \in files

\* C8: a result is never changed after collect_results has returned it: not
\* while it is the run's local result, and not once it is in the results list.
C8_NeverMutated ==
  [][ /\ Len(results') >= Len(results)
      /\ \A k \in 1..Len(results) : results'[k] = results[k]
      /\ (result # <<>> /\ pc' # "launch") => result' = result
      /\ (result # <<>> /\ Len(results') > Len(results))
           => results'[Len(results')] = result[1] ]_vars

C8_Witness ==
  /\ Len(results) >= 2
  /\ results[1].duration # results[2].duration
  /\ pc = "idle"

\* C9: no two results of one benchmark object share (game_id, run_id,
\* timestamp), and no save() has replaced another result's file.
C9_UniqueResults ==
  /\ \A j, k \in 1..Len(results) :
       j # k => ResultPath(results[j]) # ResultPath(results[k])
  /\ ~overwrote

C9_Witness ==
  \E j, k \in 1..Len(results) :
    /\ j < k
    /\ results[j].run_id = results[k].run_id
    /\ Cardinality(files) = Len(results)

\* The config file holds an entry for the key with that value: the quoted
\* key, whitespace, the quoted value.
HasEntry(content, key, value) ==
  \E i \in 1..(Len(content) - 1) :
    /\ content[i].kind = "str" /\ content[i].text = key /\ content[i].ws # "none"
    /\ content[i + 1].kind = "str" /\ content[i + 1].text = value

\* C10: when apply_preset has returned True, the config file holds, for
\* every key of the preset other than 'name' and 'description', an entry for
\* that key with the preset's value as the code writes it ("1"/"0" for a
\* bool), whatever the config file held before the call.
C10_AppliedWhenTrue ==
  (preset_call.op = "apply_preset" /\ preset_ret = "True") =>
    \A k \in 1..Len(preset_call.preset) :
      preset_call.preset[k].key \notin METADATA_KEYS =>
        HasEntry(config_file.content, preset_call.preset[k].key,
                 ValueString(preset_call.preset[k].value))

\* C10 where it does hold: the config file has a closing brace.
C10_AppliedWithBrace ==
  (/\ preset_call.op = "apply_preset" /\ preset_ret = "True"
   /\ \E i \in 1..Len(preset_call.before.content) :
        preset_call.before.content[i].kind = "close") =>
    \A k \in 1..Len(preset_call.preset) :
      preset_call.preset[k].key \notin METADATA_KEYS =>
        HasEntry(config_file.content, preset_call.preset[k].key,
                 ValueString(preset_call.preset[k].value))

\* A call of apply_preset has just returned.
AppliedNow == preset_ops' = preset_ops + 1 /\ preset_call'.op = "apply_preset"

HasRequired(preset) == REQUIRED_SETTINGS \subseteq PresetKeys(preset)

\* C11, first half: a preset without 'setting.defaultres' or without
\* 'setting.defaultresheight' makes apply_preset return False, with no
\* backup created and the config file unchanged.
C11_MissingKeyRejected ==
  [][(AppliedNow /\ ~HasRequired(preset_call'.preset)) =>
       /\ preset_ret' = "False"
       /\ backup_files' = backup_files
       /\ config_file' = config_file]_vars

\* C11: the presence of the two resolution keys is the only validation: a
\* preset missing one of them is rejected with no backup and no change of
\* the config file, and a non-empty preset that holds both is never
\* rejected for its content: with the config file there and no file
\* operation failing, apply_preset returns True.
C11_OnlyRequiredKeys ==
  [][AppliedNow =>
       /\ ~HasRequired(preset_call'.preset) =>
            /\ preset_ret' = "False"
            /\ backup_files' = backup_files
            /\ config_file' = config_file
       /\ (/\ preset_call'.preset # <<>>
           /\ HasRequired(preset_call'.preset)
           /\ config_file.exists
           /\ faults' = faults) => preset_ret' = "True"]_vars

\* A call of backup_config, of restore_backup has just returned.
BackedUpNow == preset_ops' = preset_ops + 1 /\ preset_call'.op = "backup_config"
RestoredNow == preset_ops' = preset_ops + 1 /\ preset_call'.op = "restore_backup"

\* C12: backup and restore round trip.  backup_config never changes the
\* config file and restore_backup never changes a backup file; and when
\* backup_config has returned the path P with the config file holding C and
\* only apply_preset calls have followed, restore_backup(P), its copy not
\* failing, returns True and the config file holds C again.
C12_RoundTrip ==
  [][/\ BackedUpNow => config_file' = config_file
     /\ RestoredNow => backup_files' = backup_files
     /\ (/\ RestoredNow
         /\ backup_taken # <<>>
         /\ preset_call'.path = <<backup_taken[1].name>>
         /\ faults' = faults) =>
          /\ preset_ret' = "True"
          /\ config_file' = File(backup_taken[1].content)]_vars

\* C12 for a caller whose apply_preset calls take no backup of their own.
C12_RoundTripNoOtherBackup ==
  [][(/\ RestoredNow
      /\ backup_taken # <<>>
      /\ preset_call'.path = <<backup_taken[1].name>>
      /\ faults' = faults
      /\ \A b \in backup_files : b.name = backup_taken[1].name
                                   => b.content = backup_taken[1].content) =>
       /\ preset_ret' = "True"
       /\ config_file' = File(backup_taken[1].content)]_vars

C14_AbortsOnFailedPreset ==
  [][/\ (pc = "main" /\ requested' \in {"flag", "prompt"} /\ manager_ret' # "True") =>
          /\ pc' = "return 1"
          /\ series' = 0 /\ executed' = 0 /\ steps' = <<>>
     /\ (pc = "return 1" \/ (requested \in {"flag", "prompt"} /\ manager_ret # "True")) =>
          UNCHANGED vars
     /\ (pc = "main" /\ requested' = "none") =>
          /\ pc' = "idle"
          /\ manager_ret' = "none"
          /\ UNCHANGED <<config_file, backup_files, preset_ops>>
     /\ requested = "none" => preset_ops = 0]_vars

\* main has returned 1 after the adapter was called for the preset chosen
\* at the prompt and returned False.
C14_Witness ==
  /\ pc = "return 1"
  /\ requested = "prompt"
  /\ preset_call.op = "apply_preset"
  /\ preset_ret = "False"

\* The click_template calls made so far that returned True.
RetryHits == {k \in DOMAIN retry.results : retry.results[k]}

\* What click_template_with_retry computes from the outcomes seen so far,
\* the attempts not made taken as hits.
RetryComputed ==
  ClickTemplateWithRetry(
    [a \in 0..retry.max_retries |->
       IF a < Len(retry.results) THEN retry.results[a + 1] ELSE TRUE],
    retry.max_retries)

RetryWithinBounds ==
  /\ Len(retry.results) <= retry.max_retries + 1
  /\ \A k \in RetryHits : k = Len(retry.results)
  /\ retry.ret = "True" <=> RetryHits # {}
  /\ retry.ret = "False" =>
       /\ Len(retry.results) = retry.max_retries + 1
       /\ RetryHits = {}
  /\ retry.ret # "none" =>
       /\ Bool(RetryComputed.ok) = retry.ret
       /\ RetryComputed.attempts = Len(retry.results)
       /\ RetryComputed.elapsed = now

\* C15: click_template_with_retry(max_retries = m) calls click_template at
\* most m + 1 times, stops at the first call that returns True, returns True
\* exactly when some call returned True, returns False only after m + 1
\* failed calls, and always returns.
C15_RetryBounded == []RetryWithinBounds /\ <>(retry.ret # "none")

\* All max_retries + 1 attempts (more than one) have failed.
C15_Witness ==
  /\ retry.ret = "False"
  /\ retry.max_retries >= 1
  /\ Len(retry.results) = retry.max_retries + 1

\* The three clicks of navigate_to_benchmark, in the order of its steps.
NAV_CLICKS == <<"play_tab.png", "workshop_tab.png", "cs2_fps_benchmark.png">>

\* C16: navigate_to_benchmark returns True only if the PLAY tab, the Workshop
\* tab and the CS2 FPS Benchmark map have each been found and clicked, in
\* that order.
C16_NavigatedMeansClicked == rets.nav = "True" => rets.clicked = NAV_CLICKS

\* The current run's start_benchmark confirmed the visual start.
StartConfirmed == rets.start = "True"

\* C17: every BenchmarkResult recorded in the results list belongs to a run
\* in which start_benchmark returned True; a run whose wait_until_ready,
\* navigate_to_benchmark or start_benchmark reported failure records no
\* result.
C17_RecordedMeansStarted ==
  [][results' # results =>
       /\ StartConfirmed
       /\ rets.ready = "True"
       /\ rets.nav = "True"]_vars

\* A step of the current run has been invoked.
Invoked(s) == \E k \in DOMAIN steps : steps[k] = s

\* C18: every run that launched the game invokes teardown before
\* execute_benchmark_run returns, also when collect_results returns None or
\* a step raises an exception.
C18_TeardownBeforeReturn == (pc = "ret" /\ Invoked("launch")) => Invoked("teardown")

\* C19: whenever execute_benchmark_run returns None the results list is as
\* it was before the call, and whenever it returns a result exactly that
\* result was appended to the results list.
C19_ReturnMatchesResults ==
  [][IF pc # "ret" /\ pc' = "ret"
       THEN IF ret' = <<>>
              THEN results' = results
              ELSE results' = Append(results, ret'[1])
       ELSE results' = results]_vars

\* collect_results(0) sets benchmark_duration in this step.
DurationSet == pc = "collect_results" /\ run_id = 0 /\ result' # <<>>

\* C20: whenever benchmark_duration is set, it is the end-screen detection
\* time minus the start time recorded by start_benchmark in the same run 0,
\* hence not negative and at most that run's end-screen timeout, over any
\* sequence of execute_benchmark_run calls on one benchmark object.
C20_DurationOfSameRun ==
  [][DurationSet =>
       /\ StartConfirmed
       /\ benchmark_duration' = benchmark_end_time' - benchmark_start_time
       /\ benchmark_duration' \in 0..Sec(END_SCREEN_TIMEOUT)]_vars

\* The positions in the results list of the run-0 result of this series:
\* the last result of a run 0, when this series' dry run measured a duration.
DryRunResults ==
  {k \in DOMAIN results :
     /\ dry_ok
     /\ results[k].run_id = 0
     /\ \A j \in DOMAIN results : j > k => results[j].run_id # 0}

\* benchmark_duration is assigned only by collect_results of run 0.
C21_AssignedByDryRunOnly ==
  [][benchmark_duration' # benchmark_duration =>
       pc = "collect_results" /\ run_id = 0]_vars

\* C21: benchmark_duration is assigned only by collect_results of run 0, and
\* every result with run_id >= 1 has the duration of the run-0 result of the
\* same series.
C21_DurationFromDryRun ==
  [][/\ benchmark_duration' # benchmark_duration =>
          pc = "collect_results" /\ run_id = 0
     /\ (results' # results /\ run_id >= 1) =>
          \E k \in DryRunResults :
            results'[Len(results')].duration = results[k].duration]_vars

\* collect_results has returned None: no result, and no exception.
CollectedNone == result' = <<>> /\ pc' \in {"log", "teardown"}

\* C22: collect_results returns None, takes no screenshot and leaves
\* benchmark_duration unchanged when run_id = 0 and the end screen is not
\* detected within its timeout, or run_id >= 1 and no duration is known.
C22_NothingCollected ==
  [][(/\ pc = "collect_results"
      /\ \/ run_id = 0 /\ rets'.end = "False"
         \/ run_id >= 1 /\ benchmark_duration = None) =>
       /\ CollectedNone
       /\ shots' = shots
       /\ benchmark_duration' = benchmark_duration]_vars

\* collect_results(1) has returned None for lack of a known duration.
C22_Witness ==
  /\ pc \in {"log", "teardown"}
  /\ run_id >= 1
  /\ steps[Len(steps)] = "collect_results"
  /\ benchmark_duration = None
  /\ result = <<>>

\* collect_results(0) has returned None: the end screen did not show.
C22_WitnessDryRun ==
  /\ pc \in {"log", "teardown"}
  /\ run_id = 0
  /\ rets.end = "False"
  /\ result = <<>>

====
